---- MODULE Spec2Model ----
(***************************************************************************)
(* The H1B wage dashboard: the POST /api/analyze route handler             *)
(* (app/api/analyze/route.ts) and its unit conversions.                    *)
(*                                                                         *)
(* Numbers are JavaScript numbers (IEEE-754 binary floating point, round   *)
(* to nearest, ties to even).  The model keeps the format and scales it    *)
(* down: Prec significand bits instead of 53, binary exponents up to Emax  *)
(* instead of 1023, with gradual underflow, infinities and NaN.            *)
(***************************************************************************)
EXTENDS Integers, Sequences, FiniteSets, Bags, TLC

----------------------------------------------------------------------------
(* Bounds of the number format.                                            *)

Prec == 13
Emax == 30
Emin == 1 - Emax
\* exponent of the unit in the last place of the smallest normal numbers
EminUlp == Emin - Prec + 1

----------------------------------------------------------------------------
(* JavaScript numbers.  A finite number is (-1)^s * m * 2^e with           *)
(* 2^(Prec-1) <= m < 2^Prec (normal) or m < 2^(Prec-1), e = EminUlp        *)
(* (subnormal, zero).  Zero is kept unsigned.                              *)

NaN == [k |-> "nan", s |-> 0, m |-> 0, e |-> 0]
Inf(s) == [k |-> "inf", s |-> s, m |-> 0, e |-> 0]
Zero == [k |-> "fin", s |-> 0, m |-> 0, e |-> EminUlp]
Fin(s, m, e) == [k |-> "fin", s |-> s, m |-> m, e |-> e]

RECURSIVE BitLen(_)
BitLen(q) == IF q = 0 THEN 0 ELSE 1 + BitLen(q \div 2)

\* The number nearest to (-1)^s * (N / D) * 2^E, ties to even; N >= 0, D > 0.
\* Callers pass N / D with at least Prec + 1 bits in its integer part, or an
\* exact integer (N % D = 0).
RoundPos(s, N, D, E) ==
  LET q == N \div D
      r == N % D
      L == BitLen(q)
      sh == IF E + (L - Prec) < EminUlp THEN EminUlp - E ELSE L - Prec
  IN  IF N = 0 THEN Zero
      ELSE IF sh > L THEN Zero
      ELSE IF sh <= 0 THEN
        IF (E + sh) + Prec - 1 > Emax THEN Inf(s)
        ELSE Fin(s, q * 2^(0 - sh), E + sh)
      ELSE
        LET p2 == 2^sh
            m0 == q \div p2
            low == q % p2
            \* the dropped part (low + r/D) / 2^sh against one half
            twice == 2 * (low * D + r)
            whole == p2 * D
            up == twice > whole \/ (twice = whole /\ m0 % 2 = 1)
            m1 == IF up THEN m0 + 1 ELSE m0
            m2 == IF m1 = 2^Prec THEN 2^(Prec - 1) ELSE m1
            e2 == IF m1 = 2^Prec THEN E + sh + 1 ELSE E + sh
        IN  IF m2 = 0 THEN Zero
            ELSE IF e2 + Prec - 1 > Emax THEN Inf(s)
            ELSE Fin(s, m2, e2)

\* The number a numeric literal n (an integer) or n/d denotes.
FromInt(n) == IF n < 0 THEN RoundPos(1, 0 - n, 1, 0) ELSE RoundPos(0, n, 1, 0)
FromRat(n, d) ==
  LET k0 == Prec + 1 + BitLen(d) - BitLen(n)
      k == IF k0 < 0 THEN 0 ELSE k0
  IN  RoundPos(0, n * 2^k, d, 0 - k)

IsNaN(a) == a.k = "nan"
IsZero(a) == a.k = "fin" /\ a.m = 0
XorSign(a, b) == IF a.s = b.s THEN 0 ELSE 1

\* a * b
FMul(a, b) ==
  IF IsNaN(a) \/ IsNaN(b) THEN NaN
  ELSE IF a.k = "inf" \/ b.k = "inf" THEN
    IF IsZero(a) \/ IsZero(b) THEN NaN ELSE Inf(XorSign(a, b))
  ELSE IF IsZero(a) \/ IsZero(b) THEN Zero
  ELSE RoundPos(XorSign(a, b), a.m * b.m, 1, a.e + b.e)

\* a / b
FDiv(a, b) ==
  IF IsNaN(a) \/ IsNaN(b) THEN NaN
  ELSE IF a.k = "inf" THEN (IF b.k = "inf" THEN NaN ELSE Inf(XorSign(a, b)))
  ELSE IF b.k = "inf" THEN Zero
  ELSE IF IsZero(b) THEN (IF IsZero(a) THEN NaN ELSE Inf(XorSign(a, b)))
  ELSE IF IsZero(a) THEN Zero
  ELSE LET la == BitLen(a.m)
           lb == BitLen(b.m)
           \* scale the dividend so that the quotient keeps Prec + 1 bits
           k == Prec + 1 + lb - la
       IN  RoundPos(XorSign(a, b), a.m * 2^k, b.m, a.e - b.e - k)

FNeg(a) == IF a.k = "nan" \/ IsZero(a) THEN a ELSE [a EXCEPT !.s = 1 - a.s]

\* a + b
FAdd(a, b) ==
  IF IsNaN(a) \/ IsNaN(b) THEN NaN
  ELSE IF a.k = "inf" THEN (IF b.k = "inf" /\ b.s # a.s THEN NaN ELSE a)
  ELSE IF b.k = "inf" THEN b
  ELSE IF IsZero(a) THEN b
  ELSE IF IsZero(b) THEN a
  \* an addend below a quarter of the other's unit in the last place is absorbed
  ELSE IF (a.e + BitLen(a.m)) - (b.e + BitLen(b.m)) > Prec + 2 THEN a
  ELSE IF (b.e + BitLen(b.m)) - (a.e + BitLen(a.m)) > Prec + 2 THEN b
  ELSE LET el == IF a.e < b.e THEN a.e ELSE b.e
           va == (IF a.s = 1 THEN 0 - a.m ELSE a.m) * 2^(a.e - el)
           vb == (IF b.s = 1 THEN 0 - b.m ELSE b.m) * 2^(b.e - el)
           R == va + vb
       IN  IF R < 0 THEN RoundPos(1, 0 - R, 1, el) ELSE RoundPos(0, R, 1, el)

\* a - b
FSub(a, b) == FAdd(a, FNeg(b))

\* a < b on magnitudes of finite, same-sign numbers
MagLt(a, b) ==
  IF IsZero(b) THEN FALSE
  ELSE IF IsZero(a) THEN TRUE
  ELSE LET ha == a.e + BitLen(a.m)
           hb == b.e + BitLen(b.m)
       IN  ha < hb \/ (ha = hb /\ a.m * 2^(a.e - (IF a.e < b.e THEN a.e ELSE b.e))
                                  < b.m * 2^(b.e - (IF a.e < b.e THEN a.e ELSE b.e)))

\* a < b (false when either is NaN)
FLt(a, b) ==
  IF IsNaN(a) \/ IsNaN(b) THEN FALSE
  ELSE IF a = b THEN FALSE
  ELSE IF a.k = "inf" THEN a.s = 1
  ELSE IF b.k = "inf" THEN b.s = 0
  ELSE IF a.s # b.s THEN a.s = 1
  ELSE IF a.s = 0 THEN MagLt(a, b)
  ELSE MagLt(b, a)

\* a >= b (false when either is NaN)
FGe(a, b) == ~IsNaN(a) /\ ~IsNaN(b) /\ ~FLt(a, b)

----------------------------------------------------------------------------
(* JavaScript values as the handler meets them: numbers, strings and       *)
(* undefined (a field the JSON body or the Firestore document lacks).      *)

Undefined == [t |-> "undefined", txt |-> "", n |-> NaN]
Null == [t |-> "null", txt |-> "", n |-> NaN]
Str(txt) == [t |-> "string", txt |-> txt, n |-> NaN]
Num(f) == [t |-> "number", txt |-> "", n |-> f]

\* hours per year assumed by the conversions
HoursPerYear == 2080

\* Number(v) and the implicit numeric coercion of *, / and -.  The strings of
\* the model are the empty string (0) and text that is no numeral (NaN).
ToNumber(v) ==
  IF v.t = "number" THEN v.n
  ELSE IF v.t = "undefined" THEN NaN
  ELSE IF v.txt = "" THEN Zero
  ELSE NaN

\* !v is false
Truthy(v) ==
  IF v.t = "number" THEN ~IsNaN(v.n) /\ ~IsZero(v.n)
  ELSE IF v.t = "string" THEN v.txt # ""
  ELSE FALSE

\* the arithmetic and comparison operators on values
Mul(a, b) == Num(FMul(ToNumber(a), ToNumber(b)))
Div(a, b) == Num(FDiv(ToNumber(a), ToNumber(b)))
Sub(a, b) == Num(FSub(ToNumber(a), ToNumber(b)))
Lt(a, b) == FLt(ToNumber(a), ToNumber(b))
Ge(a, b) == FGe(ToNumber(a), ToNumber(b))

\* toAnnual with 2000 hours a year, and toAnnual without its mode test
toAnnualBy2000(salary, mode) ==
  IF mode = Str("annual") THEN salary ELSE Mul(salary, Num(FromInt(2000)))
toAnnualIgnoringMode(salary, mode) == salary

\* function toAnnual(salary, mode)
toAnnual(salary, mode) ==
  IF mode = Str("annual") THEN salary ELSE Mul(salary, Num(FromInt(HoursPerYear)))

\* toHourly with 2000 hours a year
toHourlyBy2000(salaryAnnual) == Div(salaryAnnual, Num(FromInt(2000)))

\* function toHourly(salaryAnnual)
toHourly(salaryAnnual) == Div(salaryAnnual, Num(FromInt(HoursPerYear)))

----------------------------------------------------------------------------
(* The Firestore collection h1bwages_data and the request bodies.          *)

N(n) == Num(FromInt(n))

\* the four level wages a stored document may hold
LevelSets ==
  { <<N(60000), N(80000), N(100000), N(120000)>>,
    <<N(0), N(80000), N(100000), N(120000)>>,
    <<N(60000), Undefined, N(100000), N(120000)>>,
    <<N(60000), N(80000), Str("N/A"), N(120000)>>,
    <<N(100000), N(80000), N(60000), N(120000)>>,
    <<N(0 - 1), N(80000), N(100000), N(120000)>>,
    <<N(80000), N(80016), N(88000), N(96000)>> }

Doc(county, ls) ==
  [state |-> Str("Texas (TX)"), county |-> Str(county), soc_code |-> Str("13-2071"),
   l1_wage |-> ls[1], l2_wage |-> ls[2], l3_wage |-> ls[3], l4_wage |-> ls[4],
   job_title |-> Str("Compliance Officers")]

\* a collection: another county's document, then Randall County's
Stores ==
  { << Doc("Armstrong County", <<N(50000), N(60000), N(70000), N(80000)>>),
       Doc("Randall County", ls) >> : ls \in LevelSets }

\* the salary_value, mode and filter fields a request body may carry
SalaryValues ==
  { Undefined, Str("abc"), N(0), N(0 - 5), N(50000), N(88000), N(90000),
    Num(FromRat(4327, 100)),
    Mul(Num(FromRat(4327, 100)), N(HoursPerYear)) }
Modes == { Undefined, Str("annual"), Str("hourly"), Str("weekly") }
\* the filters of the stored Randall County document, and filters that match
\* no document or lack a field
Randall ==
  [state |-> Str("Texas (TX)"), county |-> Str("Randall County"), soc_code |-> Str("13-2071")]
OtherFilters ==
  { [Randall EXCEPT !.county = Str("Potter County")],
    [Randall EXCEPT !.state = Undefined],
    [Randall EXCEPT !.county = Str("")],
    [Randall EXCEPT !.soc_code = Undefined] }

Body(f, v, m) ==
  [json |-> TRUE, state |-> f.state, county |-> f.county, soc_code |-> f.soc_code,
   salary_value |-> v, mode |-> m]
\* a body req.json() cannot parse
Malformed ==
  [json |-> FALSE, state |-> Undefined, county |-> Undefined, soc_code |-> Undefined,
   salary_value |-> Undefined, mode |-> Undefined]
Bodies ==
  { Body(Randall, v, m) : v \in SalaryValues, m \in Modes }
  \cup { Body(f, N(90000), Str("annual")) : f \in OtherFilters }
  \cup { Malformed }

----------------------------------------------------------------------------
(* export async function POST(req)                                         *)

\* const salary_value = Number(body.salary_value)
salary_value(b) == Num(ToNumber(b.salary_value))
\* const mode = body.mode || "annual"
mode(b) == IF Truthy(b.mode) THEN b.mode ELSE Str("annual")

\* the condition of the 400 response
Invalid(b) ==
  \/ ~Truthy(b.state)
  \/ ~Truthy(b.county)
  \/ ~Truthy(b.soc_code)
  \/ ~Truthy(salary_value(b))
  \/ IsNaN(ToNumber(salary_value(b)))

\* the query without its three where clauses
snapshotUnfiltered(docs, b) ==
  IF Len(docs) > 1 THEN SubSeq(docs, 1, 1) ELSE docs

\* query(colRef, where state ==, where county ==, where soc_code ==, limit(1))
snapshot(docs, b) ==
  LET hits == SelectSeq(docs, LAMBDA d : /\ d.state = b.state
                                         /\ d.county = b.county
                                         /\ d.soc_code = b.soc_code)
  IN  IF Len(hits) > 1 THEN SubSeq(hits, 1, 1) ELSE hits

\* levels, sorted by wage
levelsByWage(data) ==
  LET l == << [key |-> "L1", wageAnnual |-> data.l1_wage],
              [key |-> "L2", wageAnnual |-> data.l2_wage],
              [key |-> "L3", wageAnnual |-> data.l3_wage],
              [key |-> "L4", wageAnnual |-> data.l4_wage] >>
      \* smaller wages first, wages that are no number last
      before(a, b) == Lt(a, b) \/ (~IsNaN(ToNumber(a)) /\ IsNaN(ToNumber(b)))
      p == CHOOSE q \in [1..4 -> 1..4] :
             /\ \A i, j \in 1..4 : i # j => q[i] # q[j]
             /\ \A i, j \in 1..4 :
                  i < j => \/ before(l[q[i]].wageAnnual, l[q[j]].wageAnnual)
                           \/ (~before(l[q[j]].wageAnnual, l[q[i]].wageAnnual) /\ q[i] < q[j])
  IN  [i \in 1..4 |-> l[p[i]]]

\* const levels = [...]
levels(data) ==
  << [key |-> "L1", wageAnnual |-> data.l1_wage],
     [key |-> "L2", wageAnnual |-> data.l2_wage],
     [key |-> "L3", wageAnnual |-> data.l3_wage],
     [key |-> "L4", wageAnnual |-> data.l4_wage] >>

\* the status of a ratio, with "meets" reaching up to 1.2
statusMeetsUpTo120(ratio) ==
  IF Lt(ratio, N(1)) THEN "below"
  ELSE IF Ge(ratio, N(1)) /\ Lt(ratio, Num(FromRat(12, 10))) THEN "meets"
  ELSE "exceeds"

\* the status of a ratio
status(ratio) ==
  IF Lt(ratio, N(1)) THEN "below"
  ELSE IF Ge(ratio, N(1)) /\ Lt(ratio, Num(FromRat(11, 10))) THEN "meets"
  ELSE "exceeds"

\* row, with the gap taken as salary minus wage
rowGapReversed(lvl, userSalaryAnnual) ==
  LET ratio == Div(userSalaryAnnual, lvl.wageAnnual)
      diffAnnual == IF status(ratio) = "below"
                    THEN Sub(userSalaryAnnual, lvl.wageAnnual)
                    ELSE N(0)
  IN  [level |-> lvl.key,
       annual_wage |-> lvl.wageAnnual,
       hourly_wage |-> toHourly(lvl.wageAnnual),
       ratio |-> ratio,
       status |-> status(ratio),
       toReachAnnual |-> diffAnnual]

\* row, with the ratio taken as wage over salary
rowRatioInverted(lvl, userSalaryAnnual) ==
  LET ratio == Div(lvl.wageAnnual, userSalaryAnnual)
      diffAnnual == IF status(ratio) = "below"
                    THEN Sub(lvl.wageAnnual, userSalaryAnnual)
                    ELSE N(0)
  IN  [level |-> lvl.key,
       annual_wage |-> lvl.wageAnnual,
       hourly_wage |-> toHourly(lvl.wageAnnual),
       ratio |-> ratio,
       status |-> status(ratio),
       toReachAnnual |-> diffAnnual]

\* the body of levels.map((lvl) => ...)
row(lvl, userSalaryAnnual) ==
  LET ratio == Div(userSalaryAnnual, lvl.wageAnnual)
      diffAnnual == IF status(ratio) = "below"
                    THEN Sub(lvl.wageAnnual, userSalaryAnnual)
                    ELSE N(0)
  IN  [level |-> lvl.key,
       annual_wage |-> lvl.wageAnnual,
       hourly_wage |-> toHourly(lvl.wageAnnual),
       ratio |-> ratio,
       status |-> status(ratio),
       toReachAnnual |-> diffAnnual]

table(data, userSalaryAnnual) ==
  [i \in 1..Len(levels(data)) |-> row(levels(data)[i], userSalaryAnnual)]

\* const response = {...}
response(b, data, userSalaryAnnual) ==
  [ok |-> TRUE,
   error |-> "",
   input |-> [state |-> b.state, county |-> b.county, soc_code |-> b.soc_code,
              job_title |-> data.job_title,
              salary_value |-> salary_value(b), mode |-> mode(b),
              salary_annual |-> userSalaryAnnual,
              salary_hourly |-> toHourly(userSalaryAnnual)],
   wages |-> [l1 |-> data.l1_wage, l2 |-> data.l2_wage,
              l3 |-> data.l3_wage, l4 |-> data.l4_wage],
   chart |-> [levels |-> <<"L1", "L2", "L3", "L4">>,
              wagesAnnual |-> [i \in 1..Len(levels(data)) |-> levels(data)[i].wageAnnual],
              userSalaryAnnual |-> userSalaryAnnual],
   table |-> table(data, userSalaryAnnual)]

\* the error responses: { ok: false, error }
failure(msg) ==
  [ok |-> FALSE, error |-> msg, input |-> <<>>, wages |-> <<>>, chart |-> <<>>,
   table |-> <<>>]

NoReply == [status |-> 0, body |-> failure("")]

----------------------------------------------------------------------------------------------------------------------------------------
(* State: the collection, the invocation of the handler under way, and the *)
(* invocation before it.  Invocations share nothing but the collection,    *)
(* which they only read, so one running at a time shows all they can do.   *)

VARIABLES
  store,             \* the documents of the collection
  pc,                \* where the invocation stands
  body,              \* its request body
  userSalaryAnnual,  \* its const userSalaryAnnual
  res,               \* the response it returned
  last,              \* the request body and the response of the invocation before
  x,                 \* a number handed to the conversions
  y,                 \* what the conversions applied so far made of it
  applied            \* the conversions applied so far, in order

post == <<pc, body, userSalaryAnnual, res, last>>
conv == <<x, y, applied>>

(* State of the page (the component Home): its state hooks, the timeouts   *)
(* set and not yet run or cleared, and the requests it sent that are not   *)
(* yet answered.  An option of a dropdown stands for its value.            *)
VARIABLES
  counties,            \* the options of the county dropdown
  selectedState,       \* the option chosen in each dropdown, or null
  selectedCounty,
  selectedOccupation,
  loadingCounties,
  error,
  salaryValue,         \* the text of the salary input
  salaryMode,
  analyzeLoading,
  analyzeError,
  resultsTable,        \* data.table of the response shown, <<>> for null
  chart,               \* chartLevels, chartWagesAnnual and chartUserSalaryAnnual,
                       \* always set together from data.chart; <<>> for null
  timers,              \* the timeouts pending, each the inputs its callback closes over
  cleanup,             \* the timeouts the cleanup of the last effect run clears
  countyFetches,       \* the states of the county requests awaiting their answer
  analyzeFetches,      \* the bodies of the analyze requests awaiting their answer
  changes,             \* how many times the user changed an input so far
  answers              \* what POST /api/analyze answers to each body the page can send,
                       \* as pairs <<body, response>>

inputs == <<selectedState, selectedCounty, selectedOccupation, salaryValue, salaryMode>>
shown == <<analyzeLoading, analyzeError, resultsTable, chart>>
page == <<counties, inputs, loadingCounties, error, shown, timers, cleanup,
          countyFetches, analyzeFetches, changes>>
vars == <<store, pc, body, userSalaryAnnual, res, last, x, y, applied, page, answers>>

InitPost ==
  /\ pc = "idle"
  /\ body = Malformed
  /\ userSalaryAnnual = Undefined
  /\ res = NoReply
  /\ last = [body |-> Malformed, res |-> NoReply]

InitConv ==
  /\ y = x
  /\ applied = <<>>

\* the useState initial values; nothing pending
InitPage ==
  /\ counties = {}
  /\ selectedState = Null /\ selectedCounty = Null /\ selectedOccupation = Null
  /\ loadingCounties = FALSE
  /\ error = Null
  /\ salaryValue = <<>>
  /\ salaryMode = "annual"
  /\ analyzeLoading = FALSE
  /\ analyzeError = Null
  /\ resultsTable = <<>>
  /\ chart = <<>>
  /\ timers = {}
  /\ cleanup = {}
  /\ countyFetches = EmptyBag
  /\ analyzeFetches = EmptyBag
  /\ changes = 0

Init ==
  /\ store \in Stores
  /\ answers = {}
  /\ InitPost
  /\ x = N(0)
  /\ InitConv
  /\ InitPage

\* a request arrives; the handler awaits req.json()
PostBegin(b) ==
  /\ pc \in {"idle", "done"}
  /\ pc' = "json"
  /\ body' = b
  /\ userSalaryAnnual' = Undefined
  /\ res' = NoReply
  /\ last' = IF pc = "done" THEN [body |-> body, res |-> res] ELSE last
  /\ UNCHANGED <<store, answers, conv, page>>

Reply(code, b) ==
  /\ pc' = "done"
  /\ res' = [status |-> code, body |-> b]

\* req.json() throws: the catch block answers 500
PostJsonThrows ==
  /\ pc = "json"
  /\ ~body.json
  /\ Reply(500, failure("Unexpected token"))
  /\ UNCHANGED <<store, answers, body, userSalaryAnnual, last, conv, page>>

\* the 400 response
PostInvalid ==
  /\ pc = "json"
  /\ body.json
  /\ Invalid(body)
  /\ Reply(400, failure("Missing or invalid state, county, soc_code, or salary_value"))
  /\ UNCHANGED <<store, answers, body, userSalaryAnnual, last, conv, page>>

\* the body passes, and the annual salary of the successful call before, if
\* there is one, is used again
PostQueryCached ==
  /\ pc = "json"
  /\ body.json
  /\ ~Invalid(body)
  /\ userSalaryAnnual' = IF last.res.status = 200
                          THEN last.res.body.input.salary_annual
                          ELSE toAnnual(salary_value(body), mode(body))
  /\ pc' = "getDocs"
  /\ UNCHANGED <<store, answers, body, res, last, conv, page>>

\* the body passes; userSalaryAnnual is set and the handler awaits getDocs
PostQuery ==
  /\ pc = "json"
  /\ body.json
  /\ ~Invalid(body)
  /\ userSalaryAnnual' = toAnnual(salary_value(body), mode(body))
  /\ pc' = "getDocs"
  /\ UNCHANGED <<store, answers, body, res, last, conv, page>>

\* getDocs rejects (the store cannot be reached): the catch block answers 500
PostGetDocsThrows ==
  /\ pc = "getDocs"
  /\ Reply(500, failure("unavailable"))
  /\ UNCHANGED <<store, answers, body, userSalaryAnnual, last, conv, page>>

\* snapshot.empty: the 404 response
PostNotFound ==
  /\ pc = "getDocs"
  /\ snapshot(store, body) = <<>>
  /\ Reply(404, failure("No matching wage record found for given filters"))
  /\ UNCHANGED <<store, answers, body, userSalaryAnnual, last, conv, page>>

\* the table is built from snapshot.docs[0] and returned
PostRespond ==
  /\ pc = "getDocs"
  /\ snapshot(store, body) # <<>>
  /\ Reply(200, response(body, snapshot(store, body)[1], userSalaryAnnual))
  /\ UNCHANGED <<store, answers, body, userSalaryAnnual, last, conv, page>>

Next ==
  \/ \E b \in Bodies : PostBegin(b)
  \/ PostJsonThrows
  \/ PostInvalid
  \/ PostQuery
  \/ PostGetDocsThrows
  \/ PostNotFound
  \/ PostRespond

Spec == Init /\ [][Next]_vars

----------------------------------------------------------------------------
(* The conversions on their own: toAnnual and toHourly applied, one after  *)
(* the other, to a finite number x >= 0.                                   *)

ConvSteps == 2

\* binary exponents of the numbers tried: the smallest (with the subnormal
\* numbers and zero; the quotient by 2080 is subnormal), that of hourly
\* salaries between 32 and 64, and one where the product by 2080 overflows
\* for the larger significands
ConvExps == { EminUlp, 6 - Prec, Emax - Prec - 10 }
ConvInputs ==
  { Num(Fin(0, m, e)) : m \in 2^(Prec - 1) .. 2^Prec - 1, e \in ConvExps }
  \cup { Num(Fin(0, m, EminUlp)) : m \in 0 .. 2^(Prec - 1) - 1 }

ConvToAnnual(m) ==
  /\ Len(applied) < ConvSteps
  /\ y' = toAnnual(y, Str(m))
  /\ applied' = Append(applied, <<"toAnnual", m>>)
  /\ UNCHANGED <<x, post, store, answers, page>>

ConvToHourly ==
  /\ Len(applied) < ConvSteps
  /\ y' = toHourly(y)
  /\ applied' = Append(applied, <<"toHourly", "">>)
  /\ UNCHANGED <<x, post, store, answers, page>>

NextConv ==
  \/ \E m \in {"annual", "hourly"} : ConvToAnnual(m)
  \/ ConvToHourly

ConvInit ==
  /\ store = <<>>
  /\ answers = {}
  /\ InitPost
  /\ x \in ConvInputs
  /\ InitConv
  /\ InitPage

SpecConv == ConvInit /\ [][NextConv]_vars

----------------------------------------------------------------------------
(* The claims.                                                             *)

Done == pc = "done"
Done200 == pc = "done" /\ res.status = 200
Rows == res.body.table
One == N(1)
OnePointOne == Num(FromRat(11, 10))
Statuses == {"below", "meets", "exceeds"}
\* the stored document the request's filters select
Found == snapshot(store, body)
Wages(d) == <<d.l1_wage, d.l2_wage, d.l3_wage, d.l4_wage>>
IsNumber(v) == v.t = "number" /\ ~IsNaN(v.n)

\* C1 (as stated): in every row of a successful result, with ratio = userAnnual
\* / levelAnnual, the status is below exactly when ratio < 1, meets exactly when
\* 1 <= ratio < 1.1, and exceeds exactly when ratio >= 1.1.
C1_StatusByRatio ==
  Done200 =>
    \A i \in 1..Len(Rows) :
      LET ratio == Div(res.body.input.salary_annual, Rows[i].annual_wage)
      IN  /\ Rows[i].ratio = ratio
          /\ Rows[i].status = "below" <=> Lt(ratio, One)
          /\ Rows[i].status = "meets" <=> (Ge(ratio, One) /\ Lt(ratio, OnePointOne))
          /\ Rows[i].status = "exceeds" <=> Ge(ratio, OnePointOne)

\* C2 (as stated): whenever the salary value is missing, non-numeric, zero or
\* negative, the call fails: no comparison table is returned.
C2_InvalidSalaryFails ==
  LET v == ToNumber(body.salary_value)
  IN  Done /\ body.json /\ (IsNaN(v) \/ IsZero(v) \/ FLt(v, Zero))
        => ~res.body.ok /\ res.body.table = <<>>

\* C3 (as stated): a row whose level wage is zero reports a guard error; it is
\* not classified below, meets or exceeds from an infinite ratio.
C3_ZeroWageRowIsError ==
  Done200 =>
    \A i \in 1..Len(Rows) :
      IsZero(ToNumber(Rows[i].annual_wage)) => Rows[i].status \notin Statuses

\* C4 (as stated): when one of the four level wages of the resolved document is
\* missing or non-numeric, the call fails and returns no row with a status.
C4_BadLevelWageFails ==
  Done /\ body.json /\ Found # <<>>
       /\ (\E i \in 1..4 : ~IsNumber(Wages(Found[1])[i]))
    => ~res.body.ok /\ res.body.table = <<>>

\* C5: in every row of a successful result, toReachAnnual is levelAnnual -
\* userAnnual when the status is below, and 0 when it is meets or exceeds.
C5_ToReachByStatus ==
  Done200 =>
    \A i \in 1..Len(Rows) :
      Rows[i].toReachAnnual =
        IF Rows[i].status = "below"
        THEN Sub(Rows[i].annual_wage, res.body.input.salary_annual)
        ELSE N(0)

\* a result with a row below its level, short by a positive amount, and a row
\* that meets or exceeds its level
C5_Witness ==
  /\ Done200
  /\ \E i \in 1..Len(Rows) : Rows[i].status = "below" /\ Lt(N(0), Rows[i].toReachAnnual)
  /\ \E i \in 1..Len(Rows) : Rows[i].status # "below"

\* C6 (as stated): in every row of every result returned, the amount to reach
\* is not negative.
C6_ToReachNotNegative ==
  Done200 => \A i \in 1..Len(Rows) : ~Lt(Rows[i].toReachAnnual, N(0))

\* C7: the rows of a successful result are exactly four, for L1, L2, L3, L4 in
\* that order, each carrying its own level's wage, whatever the wages'
\* magnitudes; chart.levels and chart.wagesAnnual are in the same order.
C7_RowsInLevelOrder ==
  Done200 =>
    /\ Len(Rows) = 4
    /\ res.body.chart.levels = <<"L1", "L2", "L3", "L4">>
    /\ Len(res.body.chart.wagesAnnual) = 4
    /\ \A i \in 1..4 :
         /\ Rows[i].level = res.body.chart.levels[i]
         /\ Rows[i].annual_wage = Wages(Found[1])[i]
         /\ res.body.chart.wagesAnnual[i] = Wages(Found[1])[i]

\* a result for a document whose L3 wage is below its L1 wage
C7_Witness ==
  Done200 /\ Lt(Found[1].l3_wage, Found[1].l1_wage)

IsFinite(v) == v.t = "number" /\ v.n.k = "fin"
IsNormal(v) == IsFinite(v) /\ v.n.m >= 2^(Prec - 1)
\* the unit in the last place of a finite number
Ulp(f) == RoundPos(0, 1, 1, f.e)
\* a and b, finite, differ by at most one unit in the last place of b
WithinOneUlp(a, b) == ~MagLt(Ulp(b.n), FSub(a.n, b.n))

HourlyAnnualHourly == << <<"toAnnual", "hourly">>, <<"toHourly", "">> >>
AnnualHourlyAnnual == << <<"toHourly", "">>, <<"toAnnual", "annual">> >>
AnnualHourlyByHours == << <<"toHourly", "">>, <<"toAnnual", "hourly">> >>

\* C8 (as stated): for every x >= 0, toHourly(toAnnual(x, "hourly")) equals x.
C8_RoundTripHourlyExact ==
  applied = HourlyAnnualHourly => y = x

\* C8 (amended): for every finite x >= 0 whose product by 2080 does not
\* overflow, toHourly(toAnnual(x, "hourly")) is finite and differs from x by at
\* most one unit in the last place of x.
C8_RoundTripHourly ==
  applied = HourlyAnnualHourly /\ IsFinite(toAnnual(x, Str("hourly")))
    => IsFinite(y) /\ WithinOneUlp(y, x)

\* a round trip that returns a neighbour of x, not x
C8_Witness ==
  applied = HourlyAnnualHourly /\ IsFinite(y) /\ y # x

Core(t) == [i \in 1..Len(t) |-> <<t[i].ratio, t[i].status, t[i].toReachAnnual>>]
\* a is a successful call in hourly mode with value v, b one in annual mode with
\* value v * 2080 and the same filters
HourlyAnnualPair(a, b) ==
  /\ a.res.status = 200 /\ b.res.status = 200
  /\ mode(a.body) = Str("hourly") /\ mode(b.body) = Str("annual")
  /\ <<a.body.state, a.body.county, a.body.soc_code>>
       = <<b.body.state, b.body.county, b.body.soc_code>>
  /\ salary_value(b.body) = Mul(salary_value(a.body), N(HoursPerYear))
This == [body |-> body, res |-> res]

\* C10: the annual salary of a successful result is the input value in annual
\* mode and the value times 2080 in hourly mode, and a call in hourly mode with
\* value v returns the same ratios, statuses and amounts to reach as a call in
\* annual mode with value 2080 * v.
C10_Normalised ==
  Done200 =>
    /\ mode(body) = Str("annual") => res.body.input.salary_annual = salary_value(body)
    /\ mode(body) = Str("hourly")
         => res.body.input.salary_annual = Mul(salary_value(body), N(HoursPerYear))
    /\ HourlyAnnualPair(This, last) => Core(Rows) = Core(last.res.body.table)
    /\ HourlyAnnualPair(last, This) => Core(Rows) = Core(last.res.body.table)

\* an hourly call with a value that is no integer, after the annual call with
\* 2080 times that value
C10_Witness ==
  /\ Done200
  /\ HourlyAnnualPair(This, last)
  /\ body.salary_value = Num(FromRat(4327, 100))
  /\ \E i \in 1..Len(Rows) : Rows[i].status = "below"
  /\ \E i \in 1..Len(Rows) : Rows[i].status = "exceeds"

\* no document of the collection carries the request's state, county and
\* soc_code
NoMatch ==
  \A i \in 1..Len(store) :
    <<store[i].state, store[i].county, store[i].soc_code>>
      # <<body.state, body.county, body.soc_code>>
NotFoundMessage == "No matching wage record found for given filters"

\* C11: a call whose body passes validation and whose filters match no stored
\* document never returns a table or a chart; it answers with the error "No
\* matching wage record found", status 404, unless the store could not be read
\* (status 500).
C11_NoRecordNoRows ==
  Done /\ body.json /\ ~Invalid(body) /\ NoMatch =>
    /\ ~res.body.ok
    /\ res.body.table = <<>> /\ res.body.chart = <<>> /\ res.body.wages = <<>>
    /\ \/ res.status = 404 /\ res.body.error = NotFoundMessage
       \/ res.status = 500

\* the call for a county the collection has no document of, answered 404
C11_Witness ==
  /\ Done /\ NoMatch
  /\ body.json /\ body.county = Str("Potter County")
  /\ res.status = 404 /\ res.body.error = NotFoundMessage

\* the call failed because the collection could not be read
StoreFailed(r) == r.status = 500 /\ r.body.error = "unavailable"
\* what a call with body b returns on the collection s when no call came
\* before it and the collection can be read
Alone(s, b) ==
  IF ~b.json THEN [status |-> 500, body |-> failure("Unexpected token")]
  ELSE IF Invalid(b)
  THEN [status |-> 400,
        body |-> failure("Missing or invalid state, county, soc_code, or salary_value")]
  ELSE IF snapshot(s, b) = <<>> THEN [status |-> 404, body |-> failure(NotFoundMessage)]
  ELSE [status |-> 200,
        body |-> response(b, snapshot(s, b)[1], toAnnual(salary_value(b), mode(b)))]

\* C12: whatever calls came before, succeeded or failed, a call returns what
\* the same call returns when it is the first one, and two calls with the same
\* body return the same response; only a collection that cannot be read makes a
\* call answer otherwise (status 500).
C12_Stateless ==
  Done /\ ~StoreFailed(res) =>
    /\ res = Alone(store, body)
    /\ last.body = body /\ last.res.status # 0 /\ ~StoreFailed(last.res) => res = last.res

\* a successful call repeated: the second answer is the first
C12_Witness ==
  /\ Done200
  /\ last.body = body /\ last.res = res
  /\ \E i \in 1..Len(Rows) : Rows[i].status = "below"

\* the call of scenario 1: levels 60000, 80000, 100000, 120000 and an annual
\* salary of 90000
Scenario1 ==
  /\ Found # <<>>
  /\ Wages(Found[1]) = <<N(60000), N(80000), N(100000), N(120000)>>
  /\ salary_value(body) = N(90000)
  /\ mode(body) = Str("annual")

\* C13: for levels 60000, 80000, 100000, 120000 and salary 90000 in annual
\* mode, the rows are L1..L4 in that order with ratios 1.5, 1.125, 0.9, 0.75,
\* statuses exceeds, exceeds, below, below and amounts to reach 0, 0, 10000,
\* 30000.
C13_Scenario1 ==
  Done200 /\ Scenario1 =>
    /\ [i \in 1..Len(Rows) |-> Rows[i].level] = <<"L1", "L2", "L3", "L4">>
    /\ Core(Rows) = << <<Num(FromRat(3, 2)), "exceeds", N(0)>>,
                       <<Num(FromRat(9, 8)), "exceeds", N(0)>>,
                       <<Num(FromRat(9, 10)), "below", N(10000)>>,
                       <<Num(FromRat(3, 4)), "below", N(30000)>> >>

\* the call of scenario 1, answered
C13_Witness ==
  Done200 /\ Scenario1 /\ body.mode = Str("annual") /\ Len(Rows) = 4

\* the level wages of the document found are numbers with 0 < L1 <= L2 <= L3 <= L4
OrderedWages ==
  /\ Found # <<>>
  /\ Lt(N(0), Wages(Found[1])[1])
  /\ \A i \in 1..3 : Ge(Wages(Found[1])[i + 1], Wages(Found[1])[i])
Rank(s) == CASE s = "below" -> 0 [] s = "meets" -> 1 [] s = "exceeds" -> 2

\* C20: when the level wages satisfy 0 < L1 <= L2 <= L3 <= L4 and the salary is
\* positive, no row is followed by a row of a higher status: below is never
\* followed by meets or exceeds, and meets never by exceeds.
C20_StatusMonotone ==
  Done200 /\ OrderedWages /\ Lt(N(0), salary_value(body)) =>
    \A i, j \in 1..Len(Rows) : i < j => Rank(Rows[i].status) >= Rank(Rows[j].status)

\* rows that go from exceeds through meets to below
C20_Witness ==
  /\ Done200 /\ OrderedWages /\ Lt(N(0), salary_value(body))
  /\ Len(Rows) = 4
  /\ Rows[1].status = "exceeds" /\ Rows[2].status = "meets" /\ Rows[4].status = "below"

\* the handler has accepted the request: the body passed the test of the 400
\* response and userSalaryAnnual is set
Accepted == pc = "getDocs"

\* C21 (as stated): the annual salary of an accepted request is its salary
\* value times 2080 when the body's mode is "hourly", and the salary value
\* itself for every other mode, a missing one included.
C21_OnlyHourlyMultiplies ==
  Accepted =>
    userSalaryAnnual = IF body.mode = Str("hourly")
                         THEN Mul(salary_value(body), N(HoursPerYear))
                         ELSE salary_value(body)

----------------------------------------------------------------------------
(* The page: export default function Home().  A change of a state hook,    *)
(* the render that follows and the effects of that render are one step.    *)
(* The lists of states and occupations are those the filters route gives   *)
(* on mount.                                                               *)

\* the changes of an input the user makes, and the requests of each kind that
\* may await their answer at once
MaxChanges == 5
MaxCountyFetches == 2
MaxAnalyzeFetches == 2

\* the collection behind the page: one occupation in one county of each of
\* two states
PageStore ==
  << Doc("Randall County", <<N(60000), N(80000), N(100000), N(120000)>>),
     [Doc("Athens County", <<N(50000), N(60000), N(70000), N(80000)>>)
        EXCEPT !.state = Str("Ohio (OH)")] >>

\* GET /api/filters: the states, the counties of a state, the occupations
statesOf(docs) ==
  { docs[i].state : i \in { j \in 1..Len(docs) : Truthy(docs[j].state) } }
countiesOf(docs, state) ==
  { docs[i].county :
      i \in { j \in 1..Len(docs) : docs[j].state = state /\ Truthy(docs[j].county) } }
occupationsOf(docs) ==
  { docs[i].soc_code :
      i \in { j \in 1..Len(docs) : Truthy(docs[j].soc_code) /\ Truthy(docs[j].job_title) } }

\* the texts typed into the salary input, character by character
SalaryTexts ==
  { <<>>, <<"-", "5">>, <<"9", "0", "0", "0", "0">> }
SalaryModes == { "annual", "hourly" }

Digits == <<"0", "1", "2", "3", "4", "5", "6", "7", "8", "9">>
IsDigit(c) == \E i \in 1..10 : Digits[i] = c
DigitValue(c) == (CHOOSE i \in 1..10 : Digits[i] = c) - 1
RECURSIVE Numeral(_)
Numeral(ds) ==
  IF ds = <<>> THEN 0
  ELSE 10 * Numeral(SubSeq(ds, 1, Len(ds) - 1)) + DigitValue(ds[Len(ds)])

\* the magnitude of a decimal numeral, NaN for text that is none
Magnitude(u) ==
  LET dots == { i \in 1..Len(u) : u[i] = "." }
      dot == IF dots = {} THEN Len(u) + 1 ELSE CHOOSE i \in dots : TRUE
      int == SubSeq(u, 1, dot - 1)
      frac == SubSeq(u, dot + 1, Len(u))
      wellFormed == /\ Cardinality(dots) <= 1
                    /\ \A i \in 1..Len(u) : i \notin dots => IsDigit(u[i])
                    /\ Len(int) + Len(frac) > 0
  IN  IF ~wellFormed THEN NaN
      ELSE IF Numeral(int \o frac) = 0 THEN Zero
      ELSE FromRat(Numeral(int \o frac), 10^Len(frac))

\* Number(text) without the sign
NumberUnsigned(text) ==
  IF text = <<>> THEN Zero
  ELSE IF text[1] = "-" THEN Magnitude(Tail(text))
  ELSE Magnitude(text)

\* Number(text), for decimal numerals with an optional minus sign: the empty
\* text is 0, text that is no numeral is NaN
Number(text) ==
  IF text = <<>> THEN Zero
  ELSE IF text[1] = "-" THEN FNeg(Magnitude(Tail(text)))
  ELSE Magnitude(text)

\* the value a table of pairs <<key, value>> holds for a key
Lookup(pairs, key) == (CHOOSE p \in pairs : p[1] = key)[2]

\* const numericSalary = Number(salaryValue), tabulated for the texts of the
\* model
NumberOfText == { <<text, Num(Number(text))>> : text \in SalaryTexts }
numericSalary(text) == Lookup(NumberOfText, text)

\* the values a render closes over
Closure(st, co, oc, sv, sm) ==
  [selectedState |-> st, selectedCounty |-> co, selectedOccupation |-> oc,
   salaryValue |-> sv, salaryMode |-> sm]

\* const hasValidSalary = !!numericSalary && !Number.isNaN(numericSalary) && numericSalary > 0
hasValidSalary(in) ==
  /\ Truthy(numericSalary(in.salaryValue))
  /\ ~IsNaN(numericSalary(in.salaryValue).n)
  /\ Lt(Num(Zero), numericSalary(in.salaryValue))

\* const canAnalyze = selectedState && selectedCounty && selectedOccupation && hasValidSalary
canAnalyze(in) ==
  /\ Truthy(in.selectedState)
  /\ Truthy(in.selectedCounty)
  /\ Truthy(in.selectedOccupation)
  /\ hasValidSalary(in)

\* body: JSON.stringify({ state, county, soc_code, salary_value, mode })
RequestBody(in) ==
  Body([state |-> in.selectedState, county |-> in.selectedCounty,
        soc_code |-> in.selectedOccupation],
       numericSalary(in.salaryValue), Str(in.salaryMode))

\* the auto-analyze effect that sets no timeout
AutoAnalyzeNoTimeout(in) ==
  /\ analyzeError' = Null
  /\ IF ~canAnalyze(in)
     THEN /\ resultsTable' = <<>>
          /\ chart' = <<>>
     ELSE UNCHANGED <<resultsTable, chart>>
  /\ timers' = timers \ cleanup
  /\ cleanup' = {}
  /\ UNCHANGED analyzeLoading

\* the auto-analyze effect that never clears the timeout of the run before
AutoAnalyzeNoCleanup(in) ==
  /\ analyzeError' = Null
  /\ IF ~canAnalyze(in)
     THEN /\ resultsTable' = <<>>
          /\ chart' = <<>>
          /\ timers' = timers
          /\ cleanup' = {}
     ELSE /\ timers' = timers \cup {in}
          /\ cleanup' = {in}
          /\ UNCHANGED <<resultsTable, chart>>
  /\ UNCHANGED analyzeLoading

\* the auto-analyze effect, run because one of its dependencies changed: the
\* cleanup of the run before, then the effect with the new render's values
AutoAnalyze(in) ==
  /\ analyzeError' = Null
  /\ IF ~canAnalyze(in)
     THEN /\ resultsTable' = <<>>
          /\ chart' = <<>>
          /\ timers' = timers \ cleanup
          /\ cleanup' = {}
     ELSE /\ timers' = (timers \ cleanup) \cup {in}
          /\ cleanup' = {in}
          /\ UNCHANGED <<resultsTable, chart>>
  /\ UNCHANGED analyzeLoading

\* the state dropdown's onChange, and the fetchCounties effect
SelectState(option) ==
  /\ changes < MaxChanges
  /\ changes' = changes + 1
  /\ option # selectedState
  /\ selectedState' = option
  /\ IF ~Truthy(option)
     THEN /\ counties' = {}
          /\ selectedCounty' = Null
          /\ UNCHANGED <<loadingCounties, countyFetches>>
     ELSE /\ BagCardinality(countyFetches) < MaxCountyFetches
          /\ loadingCounties' = TRUE
          /\ countyFetches' = countyFetches (+) SetToBag({option})
          /\ UNCHANGED <<counties, selectedCounty>>
  /\ AutoAnalyze(Closure(option, selectedCounty', selectedOccupation, salaryValue, salaryMode))
  /\ UNCHANGED <<selectedOccupation, salaryValue, salaryMode, error, analyzeFetches>>
  /\ UNCHANGED <<store, answers, post, conv>>

\* the county dropdown's onChange; the dropdown is enabled
SelectCounty(option) ==
  /\ changes < MaxChanges
  /\ changes' = changes + 1
  /\ ~(~Truthy(selectedState) \/ loadingCounties)
  /\ option # selectedCounty
  /\ selectedCounty' = option
  /\ AutoAnalyze(Closure(selectedState, option, selectedOccupation, salaryValue, salaryMode))
  /\ UNCHANGED <<selectedState, selectedOccupation, salaryValue, salaryMode, counties,
                 loadingCounties, error, countyFetches, analyzeFetches>>
  /\ UNCHANGED <<store, answers, post, conv>>

\* the occupation dropdown's onChange
SelectOccupation(option) ==
  /\ changes < MaxChanges
  /\ changes' = changes + 1
  /\ option # selectedOccupation
  /\ selectedOccupation' = option
  /\ AutoAnalyze(Closure(selectedState, selectedCounty, option, salaryValue, salaryMode))
  /\ UNCHANGED <<selectedState, selectedCounty, salaryValue, salaryMode, counties,
                 loadingCounties, error, countyFetches, analyzeFetches>>
  /\ UNCHANGED <<store, answers, post, conv>>

\* the salary input's onChange
SetSalaryValue(text) ==
  /\ changes < MaxChanges
  /\ changes' = changes + 1
  /\ text # salaryValue
  /\ salaryValue' = text
  /\ AutoAnalyze(Closure(selectedState, selectedCounty, selectedOccupation, text, salaryMode))
  /\ UNCHANGED <<selectedState, selectedCounty, selectedOccupation, salaryMode, counties,
                 loadingCounties, error, countyFetches, analyzeFetches>>
  /\ UNCHANGED <<store, answers, post, conv>>

\* the mode select's onChange
SetSalaryMode(m) ==
  /\ changes < MaxChanges
  /\ changes' = changes + 1
  /\ m # salaryMode
  /\ salaryMode' = m
  /\ AutoAnalyze(Closure(selectedState, selectedCounty, selectedOccupation, salaryValue, m))
  /\ UNCHANGED <<selectedState, selectedCounty, selectedOccupation, salaryValue, counties,
                 loadingCounties, error, countyFetches, analyzeFetches>>
  /\ UNCHANGED <<store, answers, post, conv>>

\* a county request is answered with data.ok: the rest of fetchCounties
CountiesLoaded(state) ==
  /\ BagIn(state, countyFetches)
  /\ countyFetches' = countyFetches (-) SetToBag({state})
  /\ counties' = countiesOf(store, state)
  /\ selectedCounty' = Null
  /\ loadingCounties' = FALSE
  /\ IF selectedCounty # Null
     THEN AutoAnalyze(Closure(selectedState, Null, selectedOccupation, salaryValue, salaryMode))
     ELSE UNCHANGED <<shown, timers, cleanup>>
  /\ UNCHANGED <<selectedState, selectedOccupation, salaryValue, salaryMode, error,
                 analyzeFetches, changes>>
  /\ UNCHANGED <<store, answers, post, conv>>

\* a county request fails, or is answered without data.ok: catch and finally
CountiesFailed(state) ==
  /\ BagIn(state, countyFetches)
  /\ countyFetches' = countyFetches (-) SetToBag({state})
  /\ error' = Str("Failed to load counties")
  /\ loadingCounties' = FALSE
  /\ UNCHANGED <<counties, inputs, shown, timers, cleanup, analyzeFetches, changes>>
  /\ UNCHANGED <<store, answers, post, conv>>

\* a timeout runs its callback: handleAnalyze up to its await
TimeoutRuns(in) ==
  /\ in \in timers
  /\ timers' = timers \ {in}
  /\ resultsTable' = <<>>
  /\ chart' = <<>>
  /\ IF ~Truthy(in.selectedState) \/ ~Truthy(in.selectedCounty) \/ ~Truthy(in.selectedOccupation)
     THEN /\ analyzeError' = Str("Please select state, county, and occupation.")
          /\ UNCHANGED <<analyzeLoading, analyzeFetches>>
     ELSE IF \/ ~Truthy(numericSalary(in.salaryValue))
             \/ IsNaN(numericSalary(in.salaryValue).n)
             \/ ~Lt(Num(Zero), numericSalary(in.salaryValue))
     THEN /\ analyzeError' = Str("Please enter a valid salary value.")
          /\ UNCHANGED <<analyzeLoading, analyzeFetches>>
     ELSE /\ BagCardinality(analyzeFetches) < MaxAnalyzeFetches
          /\ analyzeError' = Null
          /\ analyzeLoading' = TRUE
          /\ analyzeFetches' = analyzeFetches (+) SetToBag({RequestBody(in)})
  /\ UNCHANGED <<counties, inputs, loadingCounties, error, cleanup, countyFetches, changes>>
  /\ UNCHANGED <<store, answers, post, conv>>

\* an analyze request is answered by the route: the rest of handleAnalyze
AnalyzeAnswered(b, r) ==
  /\ BagIn(b, analyzeFetches)
  /\ analyzeFetches' = analyzeFetches (-) SetToBag({b})
  /\ IF r.status = 200 /\ r.body.ok
     THEN /\ resultsTable' = r.body.table
          /\ chart' = r.body.chart
          /\ UNCHANGED analyzeError
     ELSE /\ analyzeError' = Str(r.body.error)
          /\ UNCHANGED <<resultsTable, chart>>
  /\ analyzeLoading' = FALSE
  /\ UNCHANGED <<counties, inputs, loadingCounties, error, timers, cleanup, countyFetches,
                 changes>>
  /\ UNCHANGED <<store, answers, post, conv>>

\* fetch or res.json() rejects: catch and finally
AnalyzeRejected(b) ==
  /\ BagIn(b, analyzeFetches)
  /\ analyzeFetches' = analyzeFetches (-) SetToBag({b})
  /\ analyzeError' = Str("Failed to fetch")
  /\ analyzeLoading' = FALSE
  /\ UNCHANGED <<resultsTable, chart>>
  /\ UNCHANGED <<counties, inputs, loadingCounties, error, timers, cleanup, countyFetches,
                 changes>>
  /\ UNCHANGED <<store, answers, post, conv>>

\* the bodies the page can send, and what the route answers to each when the
\* collection can be read
PageBodies ==
  { Body([state |-> st, county |-> co, soc_code |-> oc], numericSalary(sv), Str(sm)) :
      st \in statesOf(PageStore),
      co \in UNION { countiesOf(PageStore, t) : t \in statesOf(PageStore) },
      oc \in occupationsOf(PageStore),
      sv \in { text \in SalaryTexts : Lt(Num(Zero), numericSalary(text)) },
      sm \in SalaryModes }
analyze(b) == Lookup(answers, b)

\* what the route may answer to a body
Answers(b) ==
  { analyze(b), [status |-> 500, body |-> failure("unavailable")] }

NextPage ==
  \/ \E option \in statesOf(store) \cup {Null} : SelectState(option)
  \/ \E option \in counties \cup {Null} : SelectCounty(option)
  \/ \E option \in occupationsOf(store) \cup {Null} : SelectOccupation(option)
  \/ \E text \in SalaryTexts : SetSalaryValue(text)
  \/ \E m \in SalaryModes : SetSalaryMode(m)
  \/ \E state \in BagToSet(countyFetches) : CountiesLoaded(state)
  \/ \E state \in BagToSet(countyFetches) : CountiesFailed(state)
  \/ \E in \in timers : TimeoutRuns(in)
  \/ \E b \in BagToSet(analyzeFetches) : \E r \in Answers(b) : AnalyzeAnswered(b, r)
  \/ \E b \in BagToSet(analyzeFetches) : AnalyzeRejected(b)

PageInit ==
  /\ store = PageStore
  /\ answers = { <<b, Alone(PageStore, b)>> : b \in PageBodies }
  /\ InitPost
  /\ x = N(0)
  /\ InitConv
  /\ InitPage

SpecPage == PageInit /\ [][NextPage]_vars

\* a timeout set is run when due, and a request sent is answered or fails
SpecPageFair ==
  /\ PageInit /\ [][NextPage]_vars
  /\ WF_vars(\E in \in timers : TimeoutRuns(in))
  /\ WF_vars(\E state \in BagToSet(countyFetches) :
               CountiesLoaded(state) \/ CountiesFailed(state))
  /\ WF_vars(\E b \in BagToSet(analyzeFetches) :
               (\E r \in Answers(b) : AnalyzeAnswered(b, r)) \/ AnalyzeRejected(b))

----------------------------------------------------------------------------
(* The claims about the page.                                              *)

\* the inputs as they stand
Current ==
  Closure(selectedState, selectedCounty, selectedOccupation, salaryValue, salaryMode)
\* the inputs with which an analysis can run
ValidClosures ==
  { in \in { Closure(st, co, oc, sv, sm) :
               st \in statesOf(PageStore),
               co \in UNION { countiesOf(PageStore, t) : t \in statesOf(PageStore) },
               oc \in occupationsOf(PageStore), sv \in SalaryTexts, sm \in SalaryModes } :
      canAnalyze(in) }
InFlight(in) == BagIn(RequestBody(in), analyzeFetches)
\* the page shows the outcome of the request for in: its table and chart, or
\* an error
ShowsOutcome(in) ==
  /\ ~InFlight(in)
  /\ \/ /\ resultsTable # <<>>
        /\ resultsTable = analyze(RequestBody(in)).body.table
        /\ chart = analyze(RequestBody(in)).body.chart
     \/ analyzeError # Null

\* C14: a change that leaves state, county and occupation selected and the
\* salary a positive number sets a timeout; a timeout that goes while the
\* inputs stay as they are has sent a request carrying them; a request answered
\* leaves the page showing its table and chart, or an error; and every timeout
\* set is run or cleared and every request sent is answered.  The user changes
\* an input MaxChanges times at most, so the inputs do stop changing.
C14_AutoAnalyze ==
  /\ [][/\ inputs' # inputs /\ canAnalyze(Current') => Current' \in timers'
        /\ \A in \in timers :
             inputs' = inputs /\ in \notin timers'
               => in = Current /\ analyzeFetches' = analyzeFetches (+) SetToBag({RequestBody(in)})
        /\ \A b \in BagToSet(analyzeFetches) :
             analyzeFetches' = analyzeFetches (-) SetToBag({b})
               => \/ resultsTable' # <<>> /\ resultsTable' = analyze(b).body.table
                                         /\ chart' = analyze(b).body.chart
                  \/ analyzeError' # Null]_vars
  /\ (timers # {}) ~> (timers = {})
  /\ (analyzeFetches # EmptyBag) ~> (analyzeFetches = EmptyBag)

\* the inputs are valid, nothing is pending and the page shows their results
C14_Witness ==
  /\ canAnalyze(Current)
  /\ timers = {} /\ analyzeFetches = EmptyBag
  /\ ShowsOutcome(Current) /\ resultsTable # <<>> /\ analyzeError = Null

\* const isCountyDisabled = !selectedState || loadingCounties
isCountyDisabled == ~Truthy(selectedState) \/ loadingCounties

\* C15 (as stated, for the runs in which no county request failed): whenever
\* the county dropdown is enabled, its options are the counties of the selected
\* state.
C15_CountyOptionsOfState ==
  error = Null /\ ~isCountyDisabled => counties = countiesOf(store, selectedState)

\* the requests the page has sent and not yet seen answered
Requests == BagToSet(analyzeFetches)
\* the text is a decimal numeral, without sign, of a number above 0
PositiveNumeral(text) ==
  /\ text # <<>>
  /\ \A i \in 1..Len(text) : IsDigit(text[i]) \/ text[i] = "."
  /\ Cardinality({ i \in 1..Len(text) : text[i] = "." }) <= 1
  /\ \E i \in 1..Len(text) : IsDigit(text[i]) /\ text[i] # "0"
Sends == BagCardinality(analyzeFetches') > BagCardinality(analyzeFetches)

C17_Debounce ==
  [][/\ Cardinality(timers') <= 1
     /\ timers' \subseteq {Current'}
     /\ inputs' # inputs => \A in \in timers : in \notin timers' \/ in = Current'
     /\ inputs' # inputs => timers' = IF canAnalyze(Current') THEN {Current'} ELSE {}
     /\ Sends =>
          /\ inputs' = inputs
          /\ analyzeFetches' = analyzeFetches (+) SetToBag({RequestBody(Current)})
          /\ timers = {Current} /\ timers' = {}]_vars

\* the last of several changes made while a timeout was pending: one timeout
\* is pending, for the inputs as they stand, and no request has been sent
C17_Witness ==
  /\ changes = 5
  /\ timers = {Current}
  /\ analyzeFetches = EmptyBag /\ ~analyzeLoading /\ resultsTable = <<>>
  /\ salaryMode = "hourly"

\* C18 (as stated, for the moments when no timeout is pending and no request
\* awaits its answer): the table and chart the page shows are those of the
\* request for the inputs as they stand.
C18_ResultsCurrent ==
  resultsTable # <<>> /\ timers = {} /\ analyzeFetches = EmptyBag =>
    /\ canAnalyze(Current)
    /\ analyze(RequestBody(Current)).status = 200
    /\ resultsTable = analyze(RequestBody(Current)).body.table
    /\ chart = analyze(RequestBody(Current)).body.chart

\* C19 (as stated): every analyze request in flight carries a county of the
\* state it carries.
C19_CountyOfState ==
  \A b \in Requests : b.county \in countiesOf(store, b.state)

\* C22 (as stated): analyzeLoading is true exactly when at least one analyze
\* request awaits its answer.
C22_LoadingWhileInFlight ==
  analyzeLoading <=> analyzeFetches # EmptyBag

====
